---- MODULE Spec2Model ----
(***************************************************************************)
(* A model of streamlit_app.py: the credential and portfolio files kept    *)
(* under DATA_DIR, the session state of one connection, the price fetch    *)
(* loop over the external quote source and the valuation of the held       *)
(* coins.                                                                  *)
(*                                                                         *)
(* Python values are tagged records with the same four fields, so that any *)
(* two of them can be compared: a str, a float or a dict (a function from  *)
(* keys to values).  The text json.dump writes is the ordered sequence of  *)
(* the members of the object; json.load reads it back into a dict.         *)
(***************************************************************************)
EXTENDS Integers, Sequences, FiniteSets, TLC

\* ------------------------------------------------------------------ bounds
\* The largest amount the number input of the sidebar is given.
MaxAmount == 2
\* The seconds of wall-clock time the model lets pass.
MaxClock == 1
\* The largest close price and the most rows the quote source returns.
MaxPrice == 3
MaxRows == 2

\* --------------------------------------------------------------- constants
DATA_DIR == "user_data"

\* default_coins of show_portfolio_page, in the order of the source.
default_coins ==
    <<"BTC", "ETH", "BNB", "ADA", "SOL", "XRP", "DOT", "DOGE", "LTC",
      "TON11419", "AVAX", "SUI20947", "ARB11841">>

\* The coins the model keeps: the first two of default_coins, as the list
\* get_crypto_data is given and as the set the multiselect offers.
coin_list == SubSeq(default_coins, 1, 2)
Coins == {coin_list[i] : i \in 1..Len(coin_list)}

\* What is typed into the text inputs of the login page.
Usernames == {"", "bob", "users"}
Passwords == {"", "pw", "x"}

\* ----------------------------------------------------------- python values
PyStr(s) == [type |-> "str", s |-> s, n |-> 0, d |-> <<>>]
PyFloat(n) == [type |-> "float", s |-> "", n |-> n, d |-> <<>>]
PyDict(d) == [type |-> "dict", s |-> "", n |-> 0, d |-> d]

EmptyDict == PyDict(<<>>)

\* key in d
PyIn(key, v) == v.type = "dict" /\ key \in DOMAIN v.d

\* d.get(key, default)
PyGet(v, key, default) == IF PyIn(key, v) THEN v.d[key] ELSE default

\* d[key] = value, on a copy of d
PySet(v, key, value) == PyDict((key :> value) @@ v.d)

\* a == b of two python values
PyEq(a, b) == a.type = b.type /\ a = b

\* ------------------------------------------------------------------- json
JString(s) == [type |-> "string", s |-> s, n |-> 0, members |-> <<>>]
JNumber(n) == [type |-> "number", s |-> "", n |-> n, members |-> <<>>]
JObject(ms) == [type |-> "object", s |-> "", n |-> 0, members |-> ms]

RECURSIVE KeySeq(_)
\* The keys of a dict, one after the other.
KeySeq(S) ==
    IF S = {} THEN <<>>
    ELSE LET k == CHOOSE x \in S : TRUE
         IN <<k>> \o KeySeq(S \ {k})

RECURSIVE json_dump(_)
\* json.dump: the text of a value; of a dict, one member per key.
json_dump(v) ==
    CASE v.type = "str" -> JString(v.s)
      [] v.type = "float" -> JNumber(v.n)
      [] v.type = "dict" ->
            LET keys == KeySeq(DOMAIN v.d)
            IN JObject([i \in 1..Len(keys) |->
                           <<keys[i], json_dump(v.d[keys[i]])>>])

RECURSIVE json_load(_)
\* json.load: the value of a text; of an object, the dict of its members,
\* a later member replacing an earlier one of the same key.
json_load(j) ==
    CASE j.type = "string" -> PyStr(j.s)
      [] j.type = "number" -> PyFloat(j.n)
      [] j.type = "object" ->
            LET RECURSIVE Members(_)
                Members(ms) ==
                    IF ms = <<>> THEN <<>>
                    ELSE LET m == ms[Len(ms)]
                         IN (m[1] :> json_load(m[2]))
                                @@ Members(SubSeq(ms, 1, Len(ms) - 1))
            IN PyDict(Members(j.members))

\* ------------------------------------------------------------- file system
\* os.path.join(DATA_DIR, name)
PathJoin(dir, name) == dir \o "/" \o name

\* os.path.exists(path): fs is the function from the paths that exist to
\* the text of the file.
PathExists(fs, path) == path \in DOMAIN fs

\* open(path, 'w') and json.dump(value, f)
WriteJson(fs, path, value) == (path :> json_dump(value)) @@ fs

\* open(path, 'r') and json.load(f)
ReadJson(fs, path) == json_load(fs[path])

\* datetime.now().strftime("%Y-%m-%d %H:%M:%S"), t the seconds of the minute.
Strftime(t) ==
    "2026-11-05 08:28:" \o (IF t < 10 THEN "0" ELSE "") \o ToString(t)

\* ------------------------------------------------------------ the stores
\* ord(c) of the characters the passwords are made of.
Ord == [c \in {"p", "w", "x"} |-> CASE c = "p" -> 112 [] c = "w" -> 119 [] c = "x" -> 120]

HexDigits == "0123456789abcdef"

\* bytes.hex() of one byte.
Hex(b) ==
    SubSeq(HexDigits, (b \div 16) + 1, (b \div 16) + 1)
        \o SubSeq(HexDigits, (b % 16) + 1, (b % 16) + 1)

RECURSIVE Digest(_)
\* The digest of the encoded password: a one-way fold of its bytes, kept to
\* one byte where SHA-256 keeps thirty-two.
Digest(password) ==
    IF Len(password) = 0 THEN 227
    ELSE (Digest(SubSeq(password, 1, Len(password) - 1)) * 31
            + Ord[SubSeq(password, Len(password), Len(password))]) % 256

\* hash_password: hashlib.sha256(password.encode()).hexdigest()
hash_password(password) == Hex(Digest(password))

\* The file of the portfolio of a user, and the file of the credentials.
PortfolioPath(username) == PathJoin(DATA_DIR, username \o ".json")
users_file == PathJoin(DATA_DIR, "users.json")

\* A faulty save_user_portfolio, one that updates the record on disk instead of
\* replacing it.
save_user_portfolio_merge(fs, username, portfolio, now) ==
    LET file_path == PortfolioPath(username)
        before == IF PathExists(fs, file_path)
                  THEN PyGet(ReadJson(fs, file_path), "portfolio", EmptyDict)
                  ELSE EmptyDict
        data_to_save ==
            PyDict(("portfolio" :> PyDict(portfolio.d @@ before.d))
                     @@ ("last_updated" :> PyStr(Strftime(now))))
    IN WriteJson(fs, file_path, data_to_save)

\* save_user_portfolio, now the time datetime.now() reads: the file system
\* after the call.
save_user_portfolio(fs, username, portfolio, now) ==
    LET file_path == PortfolioPath(username)
        data_to_save ==
            PyDict(("portfolio" :> portfolio)
                     @@ ("last_updated" :> PyStr(Strftime(now))))
    IN WriteJson(fs, file_path, data_to_save)

\* load_user_portfolio: <<portfolio, last_updated>>
load_user_portfolio(fs, username) ==
    LET file_path == PortfolioPath(username)
    IN IF PathExists(fs, file_path)
       THEN LET data == ReadJson(fs, file_path)
            IN <<PyGet(data, "portfolio", EmptyDict),
                 PyGet(data, "last_updated", PyStr(""))>>
       ELSE <<EmptyDict, PyStr("")>>

\* A faulty user_exists, looking the username up in the credential record.
user_exists_in_credentials(fs, username) ==
    PathExists(fs, PathJoin(DATA_DIR, "users.json"))
        /\ PyIn(username, ReadJson(fs, PathJoin(DATA_DIR, "users.json")))

\* user_exists
user_exists(fs, username) == PathExists(fs, PortfolioPath(username))

\* save_user_credentials: the file system after the call.
save_user_credentials(fs, username, password_hash) ==
    LET users == IF PathExists(fs, users_file)
                 THEN ReadJson(fs, users_file)
                 ELSE EmptyDict
    IN WriteJson(fs, users_file, PySet(users, username, PyStr(password_hash)))

\* A faulty check_credentials, one that does not compare the hash.
check_credentials_any_hash(fs, username, password_hash) ==
    IF ~PathExists(fs, users_file) THEN FALSE
    ELSE PyIn(username, ReadJson(fs, users_file))

\* check_credentials
check_credentials(fs, username, password_hash) ==
    IF ~PathExists(fs, users_file) THEN FALSE
    ELSE LET users == ReadJson(fs, users_file)
         IN PyIn(username, users) /\ PyEq(users.d[username], PyStr(password_hash))

\* ------------------------------------------------------- session management
\* st.session_state after init_session_state.
init_session_state ==
    [authenticated |-> FALSE, username |-> "",
     portfolio |-> EmptyDict, last_updated |-> PyStr("")]

\* A faulty login_user, one that checks the password as typed, not its hash.
login_user_unhashed(fs, ss, username, password) ==
    IF check_credentials(fs, username, password)
    THEN LET loaded == load_user_portfolio(fs, username)
         IN [session |-> [authenticated |-> TRUE, username |-> username,
                          portfolio |-> loaded[1], last_updated |-> loaded[2]],
             ret |-> TRUE]
    ELSE [session |-> ss, ret |-> FALSE]

\* login_user: the session state after the call and what it returns.
login_user(fs, ss, username, password) ==
    LET password_hash == hash_password(password)
    IN IF check_credentials(fs, username, password_hash)
       THEN LET loaded == load_user_portfolio(fs, username)
            IN [session |-> [authenticated |-> TRUE, username |-> username,
                             portfolio |-> loaded[1], last_updated |-> loaded[2]],
                ret |-> TRUE]
       ELSE [session |-> ss, ret |-> FALSE]

\* register_user: the file system after the call and what it returns.
register_user(fs, username, password, now) ==
    IF user_exists(fs, username) THEN [files |-> fs, ret |-> FALSE]
    ELSE LET password_hash == hash_password(password)
             fs1 == save_user_credentials(fs, username, password_hash)
         IN [files |-> save_user_portfolio(fs1, username, EmptyDict, now),
             ret |-> TRUE]

\* logout_user
logout_user ==
    [authenticated |-> FALSE, username |-> "",
     portfolio |-> EmptyDict, last_updated |-> PyStr("")]

\* st.session_state.portfolio.copy() with the amounts of the number inputs
\* of the selected coins set (show_portfolio_page, the sidebar).
edit_portfolio(portfolio, selected_coins, amounts) ==
    PyDict([coin \in DOMAIN portfolio.d \cup selected_coins |->
               IF coin \in selected_coins THEN PyFloat(amounts[coin])
               ELSE portfolio.d[coin]])

\* A faulty filter of "Save Changes" with v >= 0.
remove_zero_values_keep(edited_portfolio) ==
    PyDict([k \in {c \in DOMAIN edited_portfolio.d : edited_portfolio.d[c].n >= 0} |->
               edited_portfolio.d[k]])

\* {k: v for k, v in edited_portfolio.items() if v > 0}
remove_zero_values(edited_portfolio) ==
    PyDict([k \in {c \in DOMAIN edited_portfolio.d : edited_portfolio.d[c].n > 0} |->
               edited_portfolio.d[k]])

\* The body of the "Save Changes" button: the file system and the session
\* state after it; now1 and now2 are the times its two calls of
\* datetime.now() read.
save_changes(fs, ss, edited_portfolio, now1, now2) ==
    LET edited == remove_zero_values(edited_portfolio)
    IN [files |-> save_user_portfolio(fs, ss.username, edited, now1),
        session |-> [ss EXCEPT !.portfolio = edited,
                               !.last_updated = PyStr(Strftime(now2))]]

\* ------------------------------------------------------------------- state
VARIABLES
    files,       \* DATA_DIR: the paths that exist and the text of each file
    session,     \* st.session_state
    clock,       \* the wall clock datetime.now() reads, in seconds
    last,        \* the last call: its name, arguments and return value
    registered,  \* history: the usernames register_user returned True for
    writers,     \* history: per path, the stores that have written the file
    saved,       \* history: per username, the portfolio last given to save_user_portfolio
    symbols,     \* get_crypto_data: the symbols asked for
    pc,          \* get_crypto_data: where the call is
    todo,        \* get_crypto_data: the tickers the loop has yet to visit
    data,        \* get_crypto_data: the dict returned
    events,      \* history: the requests, pauses and warnings of the call, in order
    answers,     \* history: per ticker, what the quote source answered
    crypto_prices, \* show_portfolio_page: the prices get_crypto_data returned
    valuation    \* show_portfolio_page: the table rows and the total shown

storeVars == <<files, session, clock, last, registered, writers, saved>>
fetchVars == <<symbols, pc, todo, data, events, answers>>
pageVars == <<crypto_prices, valuation>>
vars == <<files, session, clock, last, registered, writers, saved,
          symbols, pc, todo, data, events, answers, crypto_prices, valuation>>

\* What `last` holds of a call.
Call(op, username, password, ret, arg) ==
    [op |-> op, username |-> username, password |-> password, ret |-> ret, arg |-> arg]

\* The history of who wrote a file, after `store` wrote `path`.
Wrote(w, path, store) ==
    (path :> ((IF path \in DOMAIN w THEN w[path] ELSE {}) \cup {store})) @@ w

NoValuation == [shown |-> FALSE, rows |-> <<>>, total |-> 0]

StoreInit ==
    /\ files = <<>>
    /\ session = init_session_state
    /\ clock = 0
    /\ last = Call("start", "", "", FALSE, EmptyDict)
    /\ registered = {}
    /\ writers = <<>>
    /\ saved = <<>>

FetchIdle ==
    /\ symbols = <<>>
    /\ pc = "idle"
    /\ todo = <<>>
    /\ data = <<>>
    /\ events = <<>>
    /\ answers = <<>>

PageIdle ==
    /\ crypto_prices = <<>>
    /\ valuation = NoValuation

\* ------------------------------------------------------- the application
Init == StoreInit /\ FetchIdle /\ PageIdle

\* show_login_page, the "Login" button.
LoginButton ==
    /\ ~session.authenticated
    /\ \E username \in Usernames, password \in Passwords :
          LET r == login_user(files, session, username, password)
          IN /\ session' = r.session
             /\ last' = Call("login", username, password, r.ret, EmptyDict)
    /\ UNCHANGED <<files, clock, registered, writers, saved, fetchVars, pageVars>>

\* show_login_page, the "Register" button.
RegisterButton ==
    /\ ~session.authenticated
    /\ \E new_username \in Usernames, new_password \in Passwords,
          confirm_password \in Passwords, now \in clock..MaxClock :
          IF new_password # confirm_password \/ new_username = "" \/ new_password = ""
          THEN /\ last' = Call("rejected", new_username, new_password, FALSE, EmptyDict)
               /\ UNCHANGED <<files, clock, registered, writers, saved>>
          ELSE LET r == register_user(files, new_username, new_password, now)
               IN /\ files' = r.files
                  /\ last' = Call("register", new_username, new_password, r.ret, EmptyDict)
                  /\ clock' = IF r.ret THEN now ELSE clock
                  /\ registered' = IF r.ret THEN registered \cup {new_username}
                                   ELSE registered
                  /\ writers' = IF r.ret
                                THEN Wrote(Wrote(writers, users_file, "CredentialStore"),
                                           PortfolioPath(new_username), "PortfolioStore")
                                ELSE writers
                  /\ saved' = IF r.ret THEN (new_username :> EmptyDict) @@ saved
                              ELSE saved
    /\ UNCHANGED <<session, fetchVars, pageVars>>

\* show_portfolio_page, the "Logout" button.
LogoutButton ==
    /\ session.authenticated
    /\ session' = logout_user
    /\ last' = Call("logout", session.username, "", TRUE, EmptyDict)
    /\ UNCHANGED <<files, clock, registered, writers, saved, fetchVars, pageVars>>

\* show_portfolio_page, the "Save Changes" button.
SaveChangesButton ==
    /\ session.authenticated
    /\ \E selected_coins \in SUBSET Coins :
       \E amounts \in [selected_coins -> 0..MaxAmount] :
       \E now1 \in clock..MaxClock :
       \E now2 \in now1..MaxClock :
          LET edited_portfolio == edit_portfolio(session.portfolio, selected_coins, amounts)
              r == save_changes(files, session, edited_portfolio, now1, now2)
          IN /\ files' = r.files
             /\ session' = r.session
             /\ clock' = now2
             /\ last' = Call("save", session.username, "", TRUE, edited_portfolio)
             /\ writers' = Wrote(writers, PortfolioPath(session.username), "PortfolioStore")
             /\ saved' = (session.username :> r.session.portfolio) @@ saved
    /\ UNCHANGED <<registered, fetchVars, pageVars>>

Next == LoginButton \/ RegisterButton \/ LogoutButton \/ SaveChangesButton

Spec == Init /\ [][Next]_vars

\* The state in which show_portfolio_page runs: "bob" has registered, logged
\* in and, unless the portfolio is empty, saved it.
SignedIn(portfolio) ==
    LET fs0 == register_user(<<>>, "bob", "pw", 0).files
        ss0 == login_user(fs0, init_session_state, "bob", "pw").session
        r == IF portfolio = EmptyDict THEN [files |-> fs0, session |-> ss0]
             ELSE save_changes(fs0, ss0, portfolio, 0, 0)
    IN /\ files = r.files
       /\ session = r.session
       /\ clock = 0
       /\ last = Call("start", "", "", FALSE, EmptyDict)
       /\ registered = {"bob"}
       /\ writers = Wrote(Wrote(<<>>, users_file, "CredentialStore"),
                          PortfolioPath("bob"), "PortfolioStore")
       /\ saved = ("bob" :> portfolio)

\* ------------------------------------------------- the stores, called alone
\* The usernames and the holdings the stores are called with.
StoreUsers == {"bob", "users"}
Holdings ==
    UNION {{PyDict([c \in held |-> PyFloat(amounts[c])]) :
               amounts \in [held -> 0..MaxAmount]} : held \in SUBSET Coins}

\* A call of save_user_credentials.
CallSaveCredentials ==
    /\ \E username \in Usernames, password \in Passwords :
          /\ files' = save_user_credentials(files, username, hash_password(password))
          /\ last' = Call("save_user_credentials", username, password, TRUE, EmptyDict)
          /\ writers' = Wrote(writers, users_file, "CredentialStore")
    /\ UNCHANGED <<session, clock, registered, saved, fetchVars, pageVars>>

\* A call of check_credentials.
CallCheckCredentials ==
    /\ \E username \in Usernames, password \in Passwords :
          last' = Call("check_credentials", username, password,
                       check_credentials(files, username, hash_password(password)),
                       EmptyDict)
    /\ UNCHANGED <<files, session, clock, registered, writers, saved, fetchVars, pageVars>>

CredentialNext == CallSaveCredentials \/ CallCheckCredentials

CredentialSpec == Init /\ [][CredentialNext]_vars

\* A call of save_user_portfolio.
CallSavePortfolio ==
    /\ \E username \in StoreUsers, portfolio \in Holdings, now \in clock..MaxClock :
          /\ files' = save_user_portfolio(files, username, portfolio, now)
          /\ clock' = now
          /\ last' = Call("save_user_portfolio", username, "", TRUE, portfolio)
          /\ writers' = Wrote(writers, PortfolioPath(username), "PortfolioStore")
          /\ saved' = (username :> portfolio) @@ saved
    /\ UNCHANGED <<session, registered, fetchVars, pageVars>>

\* A call of load_user_portfolio.
CallLoadPortfolio ==
    /\ \E username \in StoreUsers :
          last' = Call("load_user_portfolio", username, "",
                       load_user_portfolio(files, username), EmptyDict)
    /\ UNCHANGED <<files, session, clock, registered, writers, saved, fetchVars, pageVars>>

PortfolioNext == CallSavePortfolio \/ CallLoadPortfolio

PortfolioSpec == Init /\ [][PortfolioNext]_vars

\* ------------------------------------------------------- get_crypto_data
\* f"{symbol}-USD"
Ticker(symbol) == symbol \o "-USD"

\* ticker.split('-')[0]: the text before the first '-'.
SplitFirst(ticker) ==
    LET dashes == {i \in 1..Len(ticker) : SubSeq(ticker, i, i) = "-"}
    IN IF dashes = {} THEN ticker
       ELSE SubSeq(ticker, 1, (CHOOSE i \in dashes : \A j \in dashes : i <= j) - 1)

\* What yf.Ticker(ticker).history(period="1d") does: it raises, or it returns
\* the rows of a DataFrame, here the Close of each row, oldest first.
Histories == UNION {[1..n -> 1..MaxPrice] : n \in 0..MaxRows}
Answers ==
    {[raises |-> TRUE, hist |-> <<>>]} \cup {[raises |-> FALSE, hist |-> h] : h \in Histories}

Event(what, ticker) == [what |-> what, ticker |-> ticker]

\* A faulty loop body, taking hist.iloc[0] for the price.
fetch_one_first_row(d, ticker, answer) ==
    IF answer.raises
    THEN [data |-> d,
          events |-> <<Event("request", ticker), Event("warning", ticker)>>,
          raised |-> FALSE]
    ELSE IF answer.hist # <<>>
    THEN [data |-> (SplitFirst(ticker) :> answer.hist[1]) @@ d,
          events |-> <<Event("request", ticker), Event("sleep", ticker)>>,
          raised |-> FALSE]
    ELSE [data |-> d,
          events |-> <<Event("request", ticker), Event("warning", ticker),
                       Event("sleep", ticker)>>,
          raised |-> FALSE]

\* One turn of the loop over crypto_tickers, given what the quote source
\* answers: the dict, the requests, warnings and pauses made, and whether an
\* exception leaves the function.
fetch_one(d, ticker, answer) ==
    IF answer.raises
    THEN [data |-> d,
          events |-> <<Event("request", ticker), Event("warning", ticker)>>,
          raised |-> FALSE]
    ELSE IF answer.hist # <<>>
    THEN LET price == answer.hist[Len(answer.hist)]
             symbol == SplitFirst(ticker)
         IN [data |-> (symbol :> price) @@ d,
             events |-> <<Event("request", ticker), Event("sleep", ticker)>>,
             raised |-> FALSE]
    ELSE [data |-> d,
          events |-> <<Event("request", ticker), Event("warning", ticker),
                       Event("sleep", ticker)>>,
          raised |-> FALSE]

\* The lists of symbols get_crypto_data is called with: the coins of
\* coin_list, each at most once, in any order.
SymbolLists ==
    {l \in UNION {[1..n -> Coins] : n \in 0..Len(coin_list)} :
        \A i, j \in 1..Len(l) : i # j => l[i] # l[j]}

FetchInit ==
    /\ SignedIn(EmptyDict) /\ PageIdle
    /\ symbols \in SymbolLists
    /\ pc = "loop"
    /\ todo = [i \in 1..Len(symbols) |-> Ticker(symbols[i])]
    /\ data = <<>>
    /\ events = <<>>
    /\ answers = <<>>

\* for ticker in crypto_tickers: one ticker.
FetchLoop ==
    /\ pc = "loop"
    /\ todo # <<>>
    /\ \E answer \in Answers :
          LET ticker == Head(todo)
              r == fetch_one(data, ticker, answer)
          IN /\ data' = r.data
             /\ events' = events \o r.events
             /\ answers' = (ticker :> answer) @@ answers
             /\ pc' = IF r.raised THEN "raised" ELSE "loop"
             /\ todo' = Tail(todo)
    /\ UNCHANGED <<symbols, storeVars, pageVars>>

\* return data
FetchReturn ==
    /\ pc = "loop"
    /\ todo = <<>>
    /\ pc' = "returned"
    /\ UNCHANGED <<symbols, todo, data, events, answers, storeVars, pageVars>>

FetchNext == FetchLoop \/ FetchReturn

FetchSpec == FetchInit /\ [][FetchNext]_vars

\* ---------------------------------------------- the value of the portfolio
RECURSIVE SumOver(_, _)
\* sum(f[k] for k in keys)
SumOver(f, keys) ==
    IF keys = <<>> THEN 0 ELSE f[Head(keys)] + SumOver(f, Tail(keys))

RECURSIVE sort_values(_)
\* DataFrame.sort_values(by="Total Value (USD)", ascending=False)
sort_values(rows) ==
    IF rows = <<>> THEN <<>>
    ELSE LET top == CHOOSE i \in 1..Len(rows) :
                       /\ \A j \in 1..Len(rows) : rows[j].value <= rows[i].value
                       /\ \A j \in 1..(i - 1) : rows[j].value < rows[i].value
         IN <<rows[top]>>
              \o sort_values([k \in 1..(Len(rows) - 1) |->
                                 IF k < top THEN rows[k] ELSE rows[k + 1]])

\* A faulty table, built from the whole portfolio, a coin without a price
\* shown at price 0.
compute_valuation_all_held(portfolio, prices) ==
    LET coins == KeySeq(DOMAIN portfolio.d)
        price(coin) == IF coin \in DOMAIN prices THEN prices[coin] ELSE 0
        portfolio_data ==
            [i \in 1..Len(coins) |->
                [coin |-> coins[i],
                 amount |-> portfolio.d[coins[i]].n,
                 price |-> price(coins[i]),
                 value |-> portfolio.d[coins[i]].n * price(coins[i])]]
    IN [shown |-> TRUE, rows |-> sort_values(portfolio_data),
        total |-> SumOver([coin \in DOMAIN portfolio.d |->
                              portfolio.d[coin].n * price(coin)], coins)]

\* "Calculate portfolio value" and "Data table" of show_portfolio_page.
compute_valuation(portfolio, prices) ==
    LET portfolio_for_display ==
            [k \in {c \in DOMAIN portfolio.d : c \in DOMAIN prices} |-> portfolio.d[k].n]
        coins == KeySeq(DOMAIN portfolio_for_display)
        price(coin) == IF coin \in DOMAIN prices THEN prices[coin] ELSE 0
        total_value ==
            SumOver([coin \in DOMAIN portfolio_for_display |->
                        portfolio_for_display[coin] * price(coin)], coins)
        portfolio_data ==
            [i \in 1..Len(coins) |->
                [coin |-> coins[i],
                 amount |-> portfolio_for_display[coins[i]],
                 price |-> price(coins[i]),
                 value |-> portfolio_for_display[coins[i]] * price(coins[i])]]
    IN [shown |-> TRUE, rows |-> sort_values(portfolio_data), total |-> total_value]

\* The portfolios a session holds (every amount > 0) and the price dicts
\* get_crypto_data returns.
HeldPortfolios == {h \in Holdings : \A k \in DOMAIN h.d : h.d[k].n > 0}
PriceDicts == UNION {[priced -> 1..MaxPrice] : priced \in SUBSET Coins}

PageInit ==
    /\ \E portfolio \in HeldPortfolios : SignedIn(portfolio)
    /\ FetchIdle
    /\ crypto_prices \in PriceDicts
    /\ valuation = NoValuation

\* show_portfolio_page, from "Calculate portfolio value" on.
ShowValuation ==
    /\ session.authenticated
    /\ valuation' = compute_valuation(session.portfolio, crypto_prices)
    /\ UNCHANGED <<crypto_prices, storeVars, fetchVars>>

PageNext == ShowValuation

PageSpec == PageInit /\ [][PageNext]_vars

\* ------------------------------------------ what the claims speak about
\* The entry of a username in the credential record: the set of the values
\* users.json holds under that key (empty when the file or the key is not there).
CredentialEntry(fs, username) ==
    IF PathExists(fs, users_file) /\ PyIn(username, ReadJson(fs, users_file))
    THEN {ReadJson(fs, users_file).d[username]}
    ELSE {}

\* The entries of a portfolio whose amount is > 0.
PositiveEntries(portfolio) ==
    {<<k, portfolio.d[k]>> : k \in {c \in DOMAIN portfolio.d : portfolio.d[c].n > 0}}

\* The entries of a dict, as a set of pairs.
Entries(v) == {<<k, v.d[k]>> : k \in DOMAIN v.d}

\* The amounts every file under DATA_DIR holds under "portfolio".
StoredAmounts ==
    UNION {LET held == PyGet(json_load(files[path]), "portfolio", EmptyDict)
           IN {held.d[k] : k \in DOMAIN held.d} : path \in DOMAIN files}

\* The symbols asked for whose request returned rows.
Answered ==
    {symbols[i] : i \in {j \in 1..Len(symbols) :
        /\ Ticker(symbols[j]) \in DOMAIN answers
        /\ ~answers[Ticker(symbols[j])].raises
        /\ answers[Ticker(symbols[j])].hist # <<>>}}

\* ---------------------------------------------------------------- claims
\* C1: once register(u, p) has returned true, every later register(u, p')
\* returns false and leaves the credential entry of u as it was.
C1_RegisterOnce ==
    [][(last'.op = "register" /\ last'.username \in registered)
          => /\ last'.ret = FALSE
             /\ CredentialEntry(files', last'.username)
                   = CredentialEntry(files, last'.username)]_vars

\* C1's case: a register of a username that had registered before was refused.
C1_Witness ==
    /\ last.op = "register"
    /\ last.ret = FALSE
    /\ last.username \in registered

\* C2: register(u, p) of a non-empty username that has no portfolio record
\* returns true, and afterwards the credential record holds u -> hash(p) and
\* the portfolio record of u exists with empty holdings.
C2_RegisterCreates ==
    [][(last'.op = "register" /\ last'.username # ""
            /\ ~user_exists(files, last'.username))
          => /\ last'.ret = TRUE
             /\ CredentialEntry(files', last'.username)
                   = {PyStr(hash_password(last'.password))}
             /\ PathExists(files', PortfolioPath(last'.username))
             /\ load_user_portfolio(files', last'.username)[1] = EmptyDict]_vars

\* C3: from Anonymous, login(u, p) returns true and makes the session
\* Authenticated(u) with the portfolio and timestamp load(u) returns when the
\* credential record stores hash(p) for u; otherwise it returns false and
\* leaves the session as it was, Anonymous.
C3_Login ==
    [][(last'.op = "login" /\ ~session.authenticated)
          => IF CredentialEntry(files, last'.username)
                   = {PyStr(hash_password(last'.password))}
             THEN /\ last'.ret = TRUE
                  /\ session'.authenticated
                  /\ session'.username = last'.username
                  /\ <<session'.portfolio, session'.last_updated>>
                        = load_user_portfolio(files, last'.username)
             ELSE /\ last'.ret = FALSE
                  /\ ~session'.authenticated
                  /\ session' = session]_vars

\* C3's case: a login succeeded and loaded a portfolio that holds a coin.
C3_Witness ==
    /\ last.op = "login"
    /\ last.ret = TRUE
    /\ session.authenticated
    /\ session.portfolio # EmptyDict

\* C4: check(u, d) is true iff the credential record has an entry for u whose
\* stored digest equals d; it is true right after save(u, d) and false when
\* no credential file exists.
C4_CheckCredentials ==
    [][last'.op = "check_credentials"
          => /\ last'.ret = (CredentialEntry(files, last'.username)
                                = {PyStr(hash_password(last'.password))})
             /\ (last.op = "save_user_credentials"
                    /\ last.username = last'.username
                    /\ last.password = last'.password) => last'.ret = TRUE
             /\ ~PathExists(files, users_file) => last'.ret = FALSE]_vars

\* C4's case: a check that returned true on a record of several usernames.
C4_Witness ==
    /\ last.op = "check_credentials"
    /\ last.ret = TRUE
    /\ Cardinality(DOMAIN ReadJson(files, users_file).d) > 1

\* C5: load(u) returns exactly the holdings given to the most recent
\* save(u, H), with a non-empty timestamp, and the empty mapping and the
\* empty timestamp when no save(u, _) has happened.
C5_LoadReturnsLastSave ==
    last.op = "load_user_portfolio"
       => IF last.username \in DOMAIN saved
          THEN /\ last.ret[1] = saved[last.username]
               /\ last.ret[2].type = "str"
               /\ last.ret[2].s # ""
          ELSE last.ret = <<EmptyDict, PyStr("")>>

\* C5's case: a load after a save of holdings with a zero amount that names
\* fewer coins than an earlier save could have.
C5_Witness ==
    /\ last.op = "load_user_portfolio"
    /\ last.username \in DOMAIN saved
    /\ \E k \in DOMAIN saved[last.username].d : saved[last.username].d[k].n = 0
    /\ DOMAIN saved[last.username].d # Coins

C7_SavePrunes ==
    /\ last.op = "save"
          => /\ Entries(load_user_portfolio(files, last.username)[1])
                   = PositiveEntries(last.arg)
             /\ Entries(session.portfolio) = PositiveEntries(last.arg)
    /\ \A amount \in StoredAmounts : amount.type = "float" /\ amount.n > 0

\* C7's case: a save of an edited portfolio with a zero amount and a positive one.
C7_Witness ==
    /\ last.op = "save"
    /\ \E k \in DOMAIN last.arg.d : last.arg.d[k].n = 0
    /\ \E k \in DOMAIN last.arg.d : last.arg.d[k].n > 0
    /\ StoredAmounts # {}

\* C8: one row per held symbol that has a price, its value amount x price;
\* the total is the sum of the row values; a held symbol without a price is
\* in no row.
C8_Valuation ==
    valuation.shown
       => LET rows == valuation.rows
              priced == DOMAIN session.portfolio.d \cap DOMAIN crypto_prices
          IN /\ {rows[i].coin : i \in 1..Len(rows)} = priced
             /\ Len(rows) = Cardinality(priced)
             /\ \A i \in 1..Len(rows) :
                   rows[i].value
                      = session.portfolio.d[rows[i].coin].n * crypto_prices[rows[i].coin]
             /\ valuation.total
                   = SumOver([i \in 1..Len(rows) |-> rows[i].value],
                             [i \in 1..Len(rows) |-> i])

\* C8's case: a valuation of a portfolio with a coin held more than once and
\* priced, and a coin without a price.
C8_Witness ==
    /\ valuation.shown
    /\ valuation.total > MaxPrice
    /\ \E k \in DOMAIN session.portfolio.d : k \notin DOMAIN crypto_prices
    /\ \E k \in DOMAIN session.portfolio.d : k \in DOMAIN crypto_prices

\* C9: the credential file is written only by CredentialStore.save and the
\* portfolio file of each user only by PortfolioStore.save.
C9_Ownership ==
    \A path \in DOMAIN writers :
        writers[path] = {IF path = users_file THEN "CredentialStore"
                         ELSE "PortfolioStore"}

\* C10: between any two consecutive requests of one fetch the pause occurs,
\* whatever the outcome of the earlier request.
C10_PauseBetweenRequests ==
    \A i, j \in 1..Len(events) :
        (i < j /\ events[i].what = "request" /\ events[j].what = "request")
           => \E k \in i..j : events[k].what = "sleep"

====
